---- MODULE Spec2Model ----
(***************************************************************************)
(* Model of the slashrun simulation kernel and of the step request that    *)
(* drives it: the world state (db/models/state.py), the audit capture      *)
(* (db/models/state.py, backend/app/simulation/audit.py), the trigger      *)
(* engine (trigger_conditions.py, trigger_actions.py, triggers.py), the    *)
(* reducer pipeline (reducers.py) and step_simulation (api/simulation.py). *)
(*                                                                         *)
(* Numbers.  The code computes with Python floats.  The model computes in  *)
(* fixed point: a rate or ratio x is the integer x * SCALE (0.02 is 200),  *)
(* a product is rounded down to a multiple of 1/SCALE (Mul), and levels    *)
(* (gdp, potential_gdp, reserves_usd, personnel) are plain integers.       *)
(* None is a value outside the range the numbers of the model take.        *)
(***************************************************************************)
EXTENDS Integers, Sequences, FiniteSets, TLC

VARIABLES
    current_timestep,   \* Scenario.current_timestep
    sim_states,         \* the SimulationState rows: <<[timestep, state_data]>>
    db_triggers,        \* the ScenarioTrigger rows, in the order the query returns them
    audit_logs,         \* the stored StepAudit of every committed step
    field_change_logs,  \* the FieldChangeLog rows
    clock,              \* the wall clock: the next reading of datetime.utcnow()
    requests,           \* the step requests in flight: position and what each has read
    last,               \* history: what the last step request saw and computed
    fired_steps         \* history: per trigger row, the number of steps it fired in

vars == <<current_timestep, sim_states, db_triggers, audit_logs, field_change_logs,
          clock, requests, last, fired_steps>>

----------------------------------------------------------------------------
(* Bounds of the model *)

MaxSteps == 4        \* step requests per scenario
MaxTriggers == 2     \* triggers per scenario

----------------------------------------------------------------------------
(* Values *)

None == -999999
SCALE == 10000

Mul(a, b) == (a * b) \div SCALE
Max(a, b) == IF a >= b THEN a ELSE b
Abs(a) == IF a >= 0 THEN a ELSE 0 - a

\* Python's `x or d`: d replaces None and 0 alike.
Or(x, d) == IF x = None \/ x = 0 THEN d ELSE x

\* dict.get(key, default)
DictGet(d, k, default) == IF k \in DOMAIN d THEN d[k] ELSE default

Last(s) == s[Len(s)]

----------------------------------------------------------------------------
(* AuditCapture / DatabaseAuditCapture *)

\* The journal of one step.  `src` of a field change is a history field (who
\* called record_change); the code stores audit.reducer_name in reducer_name.
\* Variant: the journal's timestep is taken from the clock reading.
NewAudit_TimestepFromClock(timestep, step_start_time) ==
    [ reducer_name     |-> "simulation_step",
      timestep         |-> step_start_time,
      step_start_time  |-> step_start_time,
      step_end_time    |-> None,
      field_changes    |-> << >>,
      reducer_sequence |-> << >>,
      triggers_fired   |-> << >>,
      errors           |-> << >> ]

\* DatabaseAuditCapture.__init__; step_start_time is datetime.utcnow().
NewAudit(timestep, step_start_time) ==
    [ reducer_name     |-> "simulation_step",
      timestep         |-> timestep,
      step_start_time  |-> step_start_time,
      step_end_time    |-> None,
      field_changes    |-> << >>,
      reducer_sequence |-> << >>,
      triggers_fired   |-> << >>,
      errors           |-> << >> ]

TriggerSrc(i) == [kind |-> "trigger", trig |-> i, reducer |-> ""]
ReducerSrc(r) == [kind |-> "reducer", trig |-> 0, reducer |-> r]

\* Variant: the new FieldChange is inserted at the head of the journal.
record_change_Prepend(au, src, field_path, old_value, new_value) ==
    [au EXCEPT !.field_changes = <<
        [ field_path   |-> field_path,
          old_value    |-> old_value,
          new_value    |-> new_value,
          reducer_name |-> au.reducer_name,
          src          |-> src ] >> \o @]

record_change(au, src, field_path, old_value, new_value) ==
    [au EXCEPT !.field_changes = Append(@,
        [ field_path   |-> field_path,
          old_value    |-> old_value,
          new_value    |-> new_value,
          reducer_name |-> au.reducer_name,
          src          |-> src ])]

InSeq(x, s) == \E i \in 1..Len(s) : s[i] = x

\* finalize: step_end_time is datetime.utcnow() at the end of the step.
finalize(r, step_end_time) ==
    [st |-> r.st, au |-> [r.au EXCEPT !.step_end_time = step_end_time]]

add_reducer(au, reducer_name) ==
    IF InSeq(reducer_name, au.reducer_sequence) THEN au
    ELSE [au EXCEPT !.reducer_sequence = Append(@, reducer_name)]

add_trigger_fired(au, trigger_name) ==
    IF InSeq(trigger_name, au.triggers_fired) THEN au
    ELSE [au EXCEPT !.triggers_fired = Append(@, trigger_name)]

add_error(au, error_msg) == [au EXCEPT !.errors = Append(@, error_msg)]

----------------------------------------------------------------------------
(* Reducers (backend/app/simulation/reducers.py) *)

\* A reducer call returns the state and journal it leaves and the exception it
\* raised ("" when it returned normally).
Ok(st, au) == [st |-> st, au |-> au, exc |-> ""]
Raise(st, au, e) == [st |-> st, au |-> au, exc |-> e]

CountryPath(name, slice, field) == <<"countries", name, slice, field>>

\* Program constants, in fixed point.
PhiDefault == 5000             \* 0.5
FallbackRate == 200            \* 0.02
DefaultOutputGap == 0          \* 0.0
DefaultNeutralRate == 250      \* 0.025
DefaultInflationTarget == 200  \* 0.02
ChangeThreshold == 1           \* 0.0001
Beta == 6000                   \* 0.6
Kappa == 1000                  \* 0.1
AdjustmentSpeed == 1000        \* 0.1
PegTargetDefault == 10000      \* 1.0
PegStrengthDefault == 20000    \* 2.0
TaxableWealthShare == 1000     \* 0.1
ElasticitySavingDefault == -3000 \* -0.3
PrivateSavingShare == 2000     \* 0.2
FxPassThrough == 1000          \* 0.1
TradeElasticity == -5000       \* -0.5
NtmElasticity == 3000          \* 0.3
TariffMultiplierDefault == 10000 \* 1.0
UnemploymentFloor == 100       \* 0.01
MilexPerUnit == 200            \* 0.02
PersonnelPerUnit == 10000

taylor_rule(m, regimes) ==
    LET phi_pi == DictGet(regimes.monetary, "phi_pi", PhiDefault)
        phi_y  == DictGet(regimes.monetary, "phi_y", PhiDefault)
    IN  IF m.inflation # None /\ m.output_gap # None /\ m.neutral_rate # None
        THEN Max(0, m.neutral_rate + m.inflation
                    + Mul(phi_pi, m.inflation - m.inflation_target)
                    + Mul(phi_y, m.output_gap))
        ELSE Or(m.policy_rate, FallbackRate)

\* Variant: only the most recent FieldChange is compared with the path.
TaylorSkips_LastChangeOnly(au, policy_rate_field) ==
    /\ au.triggers_fired # << >>
    /\ au.field_changes # << >>
    /\ au.field_changes[Len(au.field_changes)].field_path = policy_rate_field

\* The first recorded change on the policy-rate path makes the function record
\* the marker and return; the scan only runs when a trigger has fired.
TaylorSkips(au, policy_rate_field) ==
    /\ au.triggers_fired # << >>
    /\ \E i \in 1..Len(au.field_changes) :
          au.field_changes[i].field_path = policy_rate_field

monetary_policy_taylor(st, c, au) ==
    LET country == st.countries[c]
        policy_rate_field == CountryPath(country.name, "macro", "policy_rate")
        marker_field == CountryPath(country.name, "macro", "policy_rate_taylor_rule_skipped")
        old_rate == Or(country.macro.policy_rate, FallbackRate)
        m1 == [country.macro EXCEPT
                 !.output_gap = IF @ = None THEN DefaultOutputGap ELSE @,
                 !.neutral_rate = IF @ = None THEN DefaultNeutralRate ELSE @,
                 !.inflation_target = IF @ = None THEN DefaultInflationTarget ELSE @]
        new_rate == taylor_rule(m1, st.rules.regimes)
        st1 == [st EXCEPT !.countries[c].macro = m1]
    IN  IF TaylorSkips(au, policy_rate_field)
        THEN Ok(st, record_change(au, ReducerSrc("monetary_policy"), marker_field, None, None))
        ELSE IF Abs(old_rate - new_rate) > ChangeThreshold
        THEN Ok([st1 EXCEPT !.countries[c].macro.policy_rate = new_rate],
                record_change(au, ReducerSrc("monetary_policy"), policy_rate_field,
                              old_rate, new_rate))
        ELSE Ok(st1, au)

monetary_policy_fx_peg(st, c, au) ==
    LET country == st.countries[c]
        target_rate == DictGet(st.rules.regimes.monetary, "peg_target", PegTargetDefault)
        old_rate == country.macro.policy_rate
        adjustment == Mul(DictGet(st.rules.regimes.monetary, "peg_strength", PegStrengthDefault),
                          country.external.fx_rate - target_rate)
        new_rate == IF country.external.fx_rate # None
                    THEN Max(0, Or(old_rate, FallbackRate) + adjustment)
                    ELSE Or(old_rate, FallbackRate)
    IN  IF old_rate # new_rate
        THEN Ok([st EXCEPT !.countries[c].macro.policy_rate = new_rate],
                record_change(au, ReducerSrc("monetary_policy"),
                              CountryPath(country.name, "macro", "policy_rate"),
                              old_rate, new_rate))
        ELSE Ok(st, au)

\* The registry holds taylor and fx_peg for monetary_policy; any other name raises.
RegisteredMonetary == {"taylor", "fx_peg"}

get_reducer_impl(impl_name) ==
    IF impl_name \in RegisteredMonetary THEN impl_name ELSE "ValueError"

update_output_gap(st, c, au) ==
    LET country == st.countries[c]
        old_gap == country.macro.output_gap
        old_gdp == country.macro.gdp
        pot == country.macro.potential_gdp
        new_gap == ((old_gdp - pot) * SCALE) \div pot
    IN  IF old_gdp # None /\ pot # None
        THEN IF pot = 0 THEN Raise(st, au, "ZeroDivisionError")
             ELSE Ok([st EXCEPT !.countries[c].macro.output_gap = new_gap],
                     record_change(au, ReducerSrc("output_gap_update"),
                                   CountryPath(country.name, "macro", "output_gap"),
                                   old_gap, new_gap))
        ELSE Ok(st, au)

update_inflation(st, c, au) ==
    LET country == st.countries[c]
        old_inflation == country.macro.inflation
        m1 == [country.macro EXCEPT
                 !.output_gap = IF @ = None THEN DefaultOutputGap ELSE @,
                 !.inflation_target = IF @ = None THEN DefaultInflationTarget ELSE @]
        expected_inflation == m1.inflation_target
        supply_shock == DictGet(st.rules.regimes.monetary, "supply_shock", 0)
        target == Mul(Beta, expected_inflation) + Mul(Kappa, m1.output_gap) + supply_shock
        new_inflation == old_inflation + Mul(AdjustmentSpeed, target - old_inflation)
        st1 == [st EXCEPT !.countries[c].macro = m1]
    IN  IF old_inflation # None
        THEN IF Abs(old_inflation - new_inflation) > ChangeThreshold
             THEN Ok([st1 EXCEPT !.countries[c].macro.inflation = new_inflation],
                     record_change(au, ReducerSrc("inflation_update"),
                                   CountryPath(country.name, "macro", "inflation"),
                                   old_inflation, new_inflation))
             ELSE Ok(st1, au)
        ELSE Ok(st, au)

fiscal_update(st, c, au) ==
    LET country == st.countries[c]
        old_balance == country.macro.primary_balance
        wealth_tax_rate == DictGet(st.rules.regimes.fiscal, "wealth_tax_rate", 0)
        elasticity_saving == DictGet(st.rules.regimes.fiscal, "elasticity_saving",
                                     ElasticitySavingDefault)
        wealth_tax_revenue == Mul(wealth_tax_rate, TaxableWealthShare)
        saving_response == Mul(elasticity_saving, wealth_tax_rate)
        new_balance == old_balance + wealth_tax_revenue
                       + Mul(saving_response, PrivateSavingShare)
    IN  IF country.macro.gdp # None /\ old_balance # None
        THEN Ok([st EXCEPT !.countries[c].macro.primary_balance = new_balance],
                record_change(au, ReducerSrc("fiscal_update"),
                              CountryPath(country.name, "macro", "primary_balance"),
                              old_balance, new_balance))
        ELSE Ok(st, au)

update_debt(st, c, au) ==
    LET country == st.countries[c]
        m == country.macro
        old_debt == m.debt_gdp
        real_interest_rate == country.finance.sovereign_yield - Or(m.inflation, FallbackRate)
        gdp_growth == ((m.gdp - m.potential_gdp) * SCALE) \div m.potential_gdp
        debt_service_ratio == ((SCALE + real_interest_rate) * SCALE) \div (SCALE + gdp_growth)
        new_debt == Mul(old_debt, debt_service_ratio) - m.primary_balance + m.sfa
    IN  IF /\ old_debt # None
           /\ m.primary_balance # None
           /\ country.finance.sovereign_yield # None
           /\ m.gdp # None
           /\ m.potential_gdp # None
        THEN IF m.potential_gdp = 0 \/ SCALE + gdp_growth = 0
             THEN Raise(st, au, "ZeroDivisionError")
             ELSE Ok([st EXCEPT !.countries[c].macro.debt_gdp = new_debt],
                     record_change(au, ReducerSrc("debt_update"),
                                   CountryPath(country.name, "macro", "debt_gdp"),
                                   old_debt, new_debt))
        ELSE Ok(st, au)

settle_bop(st, c, au) ==
    LET country == st.countries[c]
        old_reserves == country.external.reserves_usd
        ca_usd == country.external.current_account_gdp * country.macro.gdp
        new_reserves == old_reserves + (ca_usd \div (2 * SCALE))
    IN  IF /\ country.external.current_account_gdp # None
           /\ country.macro.gdp # None
           /\ old_reserves # None
        THEN Ok([st EXCEPT !.countries[c].external.reserves_usd = new_reserves],
                record_change(au, ReducerSrc("bop_settlement"),
                              CountryPath(country.name, "external", "reserves_usd"),
                              old_reserves, new_reserves))
        ELSE Ok(st, au)

update_fx(st, c, base, au) ==
    LET dom == st.countries[c]
        base_country == st.countries[base]
        old_fx == dom.external.fx_rate
        rho == DictGet(st.rules.regimes.fx, "uip_rho_base", 0)
        interest_differential == dom.macro.policy_rate - base_country.macro.policy_rate
        expected_depreciation == interest_differential + rho
        new_fx == Mul(old_fx, SCALE + Mul(expected_depreciation, FxPassThrough))
    IN  IF /\ dom.macro.policy_rate # None
           /\ base_country.macro.policy_rate # None
           /\ old_fx # None
        THEN Ok([st EXCEPT !.countries[c].external.fx_rate = new_fx],
                record_change(au, ReducerSrc("fx_update"),
                              CountryPath(dom.name, "external", "fx_rate"),
                              old_fx, new_fx))
        ELSE Ok(st, au)

\* trade_update's body for one country of its loop over state.countries.items();
\* the paths use the dictionary key.
trade_update_country(st, c, au) ==
    LET country == st.countries[c]
        tariff_multiplier == DictGet(st.rules.regimes.trade, "tariff_multiplier",
                                     TariffMultiplierDefault)
        ntm_shock == DictGet(st.rules.regimes.trade, "ntm_shock", 0)
        old_exports == country.trade.exports_gdp
        old_imports == country.trade.imports_gdp
        old_tariff == country.trade.tariff_mfn_avg
        effective_tariff == Mul(old_tariff, tariff_multiplier)
        tariff_impact == IF old_tariff # None
                         THEN Mul(TradeElasticity, effective_tariff - Or(old_tariff, 0))
                         ELSE 0
        ntm_impact == Mul(0 - ntm_shock, NtmElasticity)
        trade_impact == tariff_impact + ntm_impact
        new_exports == Mul(old_exports, SCALE + trade_impact)
        new_imports == Mul(old_imports, SCALE + trade_impact)
        au1 == record_change(au, ReducerSrc("trade_update"),
                             CountryPath(c, "trade", "exports_gdp"), old_exports, new_exports)
        au2 == record_change(au1, ReducerSrc("trade_update"),
                             CountryPath(c, "trade", "imports_gdp"), old_imports, new_imports)
    IN  IF old_exports # None /\ old_imports # None
        THEN Ok([st EXCEPT !.countries[c].trade.exports_gdp = new_exports,
                           !.countries[c].trade.imports_gdp = new_imports], au2)
        ELSE Ok(st, au)

labor_supply_update(st, c, au) ==
    LET country == st.countries[c]
        national_service_pct == DictGet(st.rules.regimes.labor, "national_service_pct", 0)
        old_unemployment == country.macro.unemployment
        labor_reduction == national_service_pct \div 100
        unemployment_impact == 0 - (labor_reduction \div 2)
        new_unemployment == Max(UnemploymentFloor, old_unemployment + unemployment_impact)
    IN  IF old_unemployment # None /\ national_service_pct > 0
        THEN Ok([st EXCEPT !.countries[c].macro.unemployment = new_unemployment],
                record_change(au, ReducerSrc("labor_supply_update"),
                              CountryPath(country.name, "macro", "unemployment"),
                              old_unemployment, new_unemployment))
        ELSE Ok(st, au)

security_update(st, c, au) ==
    LET country == st.countries[c]
        mobilization_intensity == DictGet(st.rules.regimes.security,
                                          "mobilization_intensity", 0)
        old_milex == country.security.milex_gdp
        old_personnel == country.security.personnel
        new_milex == old_milex + Mul(mobilization_intensity, MilexPerUnit)
        new_personnel == old_personnel + Mul(mobilization_intensity, PersonnelPerUnit)
        st1 == [st EXCEPT !.countries[c].security.milex_gdp = new_milex]
        au1 == record_change(au, ReducerSrc("security_update"),
                             CountryPath(country.name, "security", "milex_gdp"),
                             old_milex, new_milex)
    IN  IF mobilization_intensity > 0 /\ old_milex # None
        THEN IF old_personnel # None
             THEN Ok([st1 EXCEPT !.countries[c].security.personnel = new_personnel],
                     record_change(au1, ReducerSrc("security_update"),
                                   CountryPath(country.name, "security", "personnel"),
                                   old_personnel, new_personnel))
             ELSE Ok(st1, au1)
        ELSE Ok(st, au)

\* One reducer of the sequence applied to one country (the if/elif chain of
\* reduce_world's inner loop).
ReduceCountry(reducer_name, st, c, base_ccy_country, au) ==
    CASE reducer_name = "output_gap_update" -> update_output_gap(st, c, au)
      [] reducer_name = "inflation_update" -> update_inflation(st, c, au)
      [] reducer_name = "monetary_policy" ->
            LET impl == get_reducer_impl(DictGet(st.rules.regimes.monetary, "rule", "taylor"))
            IN  CASE impl = "taylor" -> monetary_policy_taylor(st, c, au)
                  [] impl = "fx_peg" -> monetary_policy_fx_peg(st, c, au)
                  [] OTHER -> Raise(st, au, "ValueError")
      [] reducer_name = "fiscal_update" -> fiscal_update(st, c, au)
      [] reducer_name = "debt_update" -> update_debt(st, c, au)
      [] reducer_name = "fx_update" /\ c # base_ccy_country ->
            update_fx(st, c, base_ccy_country, au)
      [] reducer_name = "labor_supply_update" -> labor_supply_update(st, c, au)
      [] reducer_name = "security_update" -> security_update(st, c, au)
      [] reducer_name = "bop_settlement" -> settle_bop(st, c, au)
      [] OTHER -> Ok(st, au)

\* `for country_name, country in state.countries.items()`: the countries in the
\* dictionary's key order; an exception leaves the loop.
RECURSIVE ForCountries(_, _, _, _)
ForCountries(reducer_name, keys, base_ccy_country, r) ==
    IF keys = << >> \/ r.exc # "" THEN r
    ELSE ForCountries(reducer_name, Tail(keys), base_ccy_country,
                      ReduceCountry(reducer_name, r.st, Head(keys), base_ccy_country, r.au))

RECURSIVE TradeLoop(_, _)
TradeLoop(keys, r) ==
    IF keys = << >> THEN r
    ELSE TradeLoop(Tail(keys), trade_update_country(r.st, Head(keys), r.au))

trade_update(st, au) == TradeLoop(st.countries_keys, Ok(st, au))

\* Variant: the exchange-rate and debt passes come before the passes that
\* write what they read.
reducer_sequence_FxAndDebtFirst ==
    << "fx_update", "debt_update", "output_gap_update", "inflation_update",
       "monetary_policy", "fiscal_update", "trade_update", "labor_supply_update",
       "security_update", "bop_settlement" >>

reducer_sequence ==
    << "output_gap_update", "inflation_update", "monetary_policy", "fiscal_update",
       "debt_update", "fx_update", "trade_update", "labor_supply_update",
       "security_update", "bop_settlement" >>

\* "Global reducers": trade_update runs after the countries loop of its pass.
GlobalReducers(reducer_name, r) ==
    IF r.exc = "" /\ reducer_name = "trade_update" THEN trade_update(r.st, r.au) ELSE r

\* Variant: the except clause swallows the exception without a record.
Except_Pass(reducer_name, g) ==
    [st |-> g.st, au |-> g.au]

\* `except Exception as e: audit.add_error(...)`.
Except(reducer_name, g) ==
    IF g.exc # ""
    THEN [st |-> g.st, au |-> add_error(g.au, <<"Error in", reducer_name, g.exc>>)]
    ELSE [st |-> g.st, au |-> g.au]

\* Variant: add_reducer is called at the end of the try block.
ExceptElseAdd(reducer_name, g) ==
    IF g.exc # ""
    THEN [st |-> g.st, au |-> add_error(g.au, <<"Error in", reducer_name, g.exc>>)]
    ELSE [st |-> g.st, au |-> add_reducer(g.au, reducer_name)]

RunReducer_AddOnSuccess(reducer_name, st, base_ccy_country, au) ==
    ExceptElseAdd(reducer_name,
        GlobalReducers(reducer_name,
            ForCountries(reducer_name, st.countries_keys, base_ccy_country, Ok(st, au))))

\* One pass of reduce_world's outer loop: add_reducer, the per-country loop, the
\* global reducer, and the except clause.
RunReducer(reducer_name, st, base_ccy_country, au) ==
    Except(reducer_name,
        GlobalReducers(reducer_name,
            ForCountries(reducer_name, st.countries_keys, base_ccy_country,
                         Ok(st, add_reducer(au, reducer_name)))))

RECURSIVE RunReducers(_, _, _)
RunReducers(names, base_ccy_country, r) ==
    IF names = << >> THEN r
    ELSE RunReducers(Tail(names), base_ccy_country,
                     RunReducer(Head(names), r.st, base_ccy_country, r.au))

\* Variant: the clock is only advanced by a pass that recorded no error.
IncrementTimeOnSuccess(au, r) ==
    [st |-> IF Len(r.au.errors) > Len(au.errors) THEN r.st ELSE [r.st EXCEPT !.t = @ + 1],
     au |-> r.au]

reduce_world_TickOnSuccess(st, base_ccy_country, au) ==
    IF base_ccy_country \notin DOMAIN st.countries
    THEN [st |-> st,
          au |-> add_error(au, <<"Base currency country not found", base_ccy_country>>)]
    ELSE IncrementTimeOnSuccess(au,
             RunReducers(reducer_sequence, base_ccy_country, [st |-> st, au |-> au]))

\* `state.t += 1; return state`.
IncrementTime(r) == [st |-> [r.st EXCEPT !.t = @ + 1], au |-> r.au]

reduce_world(st, base_ccy_country, au) ==
    IF base_ccy_country \notin DOMAIN st.countries
    THEN [st |-> st,
          au |-> add_error(au, <<"Base currency country not found", base_ccy_country>>)]
    ELSE IncrementTime(RunReducers(reducer_sequence, base_ccy_country,
                                   [st |-> st, au |-> au]))

----------------------------------------------------------------------------
(* Trigger conditions (backend/app/simulation/trigger_conditions.py) *)

\* A condition string is modelled by its parse:
\*   [kind |-> "empty"]                                   ""
\*   [kind |-> "t", op, n]                                "t >= 3"
\*   [kind |-> "date", op, year]                          "date>=2026-01-01"
\*   [kind |-> "country", code, slice, field, op, value]  "country('USA').macro.inflation>0.05"
\*   [kind |-> "and", l, r], [kind |-> "or", l, r]        "a && b", "a || b"
\*   [kind |-> "malformed"]                               a string eval() cannot parse
\* Evaluation yields "T", "F", or "E" when Python raises.

EpochYear == 2025
StepsPerYear == 4

safe_getattr(st, code, slice, field) ==
    IF code \notin DOMAIN st.countries THEN None
    ELSE IF slice \notin DOMAIN st.countries[code] THEN None
    ELSE IF field \notin DOMAIN st.countries[code][slice] THEN None
    ELSE st.countries[code][slice][field]

Bool3(b) == IF b THEN "T" ELSE "F"

\* Python comparison: ordering a None against a number raises TypeError.
Compare(op, a, b) ==
    IF op = "==" THEN Bool3(a = b)
    ELSE IF op = "!=" THEN Bool3(a # b)
    ELSE IF a = None \/ b = None THEN "E"
    ELSE CASE op = "<"  -> Bool3(a < b)
           [] op = "<=" -> Bool3(a <= b)
           [] op = ">"  -> Bool3(a > b)
           [] op = ">=" -> Bool3(a >= b)
           [] OTHER -> "E"

RECURSIVE Eval(_, _)
Eval(st, cond) ==
    CASE cond.kind = "t" -> Compare(cond.op, st.t, cond.n)
      [] cond.kind = "date" -> Compare(cond.op, st.t, (cond.year - EpochYear) * StepsPerYear)
      [] cond.kind = "country" ->
            Compare(cond.op, safe_getattr(st, cond.code, cond.slice, cond.field), cond.value)
      [] cond.kind = "and" ->
            LET l == Eval(st, cond.l) IN IF l = "T" THEN Eval(st, cond.r) ELSE l
      [] cond.kind = "or" ->
            LET l == Eval(st, cond.l) IN IF l = "F" THEN Eval(st, cond.r) ELSE l
      [] OTHER -> "E"

\* eval_condition catches every exception of eval() and returns False.
eval_condition(st, cond) ==
    IF cond.kind = "empty" THEN TRUE ELSE Eval(st, cond) = "T"

----------------------------------------------------------------------------
(* Trigger actions (backend/app/simulation/trigger_actions.py) *)

\* The nodes of the state that are Python dicts; every other node is an object.
IsDict(prefix) ==
    \/ prefix = <<"countries">>
    \/ prefix # << >> /\ prefix[1] \in {"trade_matrix", "sanctions"}
    \/ Len(prefix) = 3 /\ prefix[1] = "rules" /\ prefix[2] = "regimes"

\* The walk to the parent of the patched cell: hasattr / `in` on each part.
RECURSIVE Navigate(_, _)
Navigate(target, parts) ==
    IF parts = << >> THEN [found |-> TRUE, missing |-> ""]
    ELSE IF Head(parts) \in DOMAIN target THEN Navigate(target[Head(parts)], Tail(parts))
    ELSE [found |-> FALSE, missing |-> Head(parts)]

RECURSIVE GetPath(_, _)
GetPath(obj, path) ==
    IF path = << >> THEN obj ELSE GetPath(obj[Head(path)], Tail(path))

RECURSIVE SetPath(_, _, _)
SetPath(obj, path, v) ==
    IF Len(path) = 1
    THEN IF path[1] \in DOMAIN obj THEN [obj EXCEPT ![path[1]] = v]
         ELSE (path[1] :> v) @@ obj
    ELSE [obj EXCEPT ![path[1]] = SetPath(obj[path[1]], Tail(path), v)]

PatchValue(op, old_value, value) ==
    CASE op = "set" -> value
      [] op = "add" -> Or(old_value, 0) + value
      [] op = "mul" -> Mul(Or(old_value, SCALE), value)

apply_policy_patch(st, i, patch, au) ==
    LET parent == SubSeq(patch.path, 1, Len(patch.path) - 1)
        final_field == Last(patch.path)
        nav == Navigate(st, parent)
        target == GetPath(st, parent)
        has == final_field \in DOMAIN target
        old_value == IF has THEN target[final_field] ELSE None
        new_value == PatchValue(patch.op, old_value, patch.value)
    IN  IF ~nav.found
        THEN [st |-> st, au |-> add_error(au, <<"Invalid patch path", nav.missing>>)]
        ELSE IF patch.op \notin {"set", "add", "mul"}
        THEN [st |-> st, au |-> add_error(au, <<"Unknown patch operation", patch.op>>)]
        ELSE IF ~has /\ ~IsDict(parent)
        THEN [st |-> st, au |-> add_error(au, <<"Cannot set field", final_field>>)]
        ELSE [st |-> SetPath(st, patch.path, new_value),
              au |-> record_change(au, TriggerSrc(i), patch.path, old_value, new_value)]

RECURSIVE ApplyPatches(_, _, _)
ApplyPatches(i, patches, r) ==
    IF patches = << >> THEN r
    ELSE ApplyPatches(i, Tail(patches), apply_policy_patch(r.st, i, Head(patches), r.au))

\* apply_reducer_override.  The state is a pydantic model: `"rules" not in state`
\* iterates its (field, value) pairs and so holds, and `state["rules"] = {}`
\* raises TypeError (a model supports no item assignment); the except clause
\* records the failure.  Nothing is written and no change is recorded.
apply_reducer_override(st, i, override, au) ==
    [st |-> st, au |-> add_error(au, <<"Failed to apply reducer override", override.target>>)]

\* apply_network_rewrite.  `state.get(...)` raises AttributeError (a model has
\* no get) for the layers trade, alliances, sanctions and interbank, and the
\* energy branch raises TypeError on `state["io_coefficients"] = {}`; the
\* except clause records the failure.  The edits are never reached.
apply_network_rewrite(st, i, rewrite, au) ==
    IF rewrite.layer \in {"trade", "alliances", "sanctions", "interbank", "energy"}
    THEN [st |-> st,
          au |-> add_error(au, <<"Failed to apply network rewrite for", rewrite.layer>>)]
    ELSE [st |-> st, au |-> add_error(au, <<"Unknown network layer", rewrite.layer>>)]

\* inject_event.  `"events" not in state` holds for the same reason and
\* `state["events"] = ...` raises TypeError, recorded by the except clause.
inject_event(st, i, event, au) ==
    [st |-> st, au |-> add_error(au, <<"Failed to inject event", event.kind>>)]

RECURSIVE ApplyOverrides(_, _, _)
ApplyOverrides(i, overrides, r) ==
    IF overrides = << >> THEN r
    ELSE ApplyOverrides(i, Tail(overrides),
                        apply_reducer_override(r.st, i, Head(overrides), r.au))

RECURSIVE ApplyRewrites(_, _, _)
ApplyRewrites(i, rewrites, r) ==
    IF rewrites = << >> THEN r
    ELSE ApplyRewrites(i, Tail(rewrites),
                       apply_network_rewrite(r.st, i, Head(rewrites), r.au))

RECURSIVE InjectEvents(_, _, _)
InjectEvents(i, events, r) ==
    IF events = << >> THEN r
    ELSE InjectEvents(i, Tail(events), inject_event(r.st, i, Head(events), r.au))

\* `return success`: the try block of apply_trigger never raises, the
\* per-action functions catching every exception themselves.
Success(r) == [st |-> r.st, au |-> r.au, success |-> TRUE]

\* Patches, then overrides, then network rewrites, then events.
apply_trigger(st, i, trigger, au) ==
    Success(
        InjectEvents(i, trigger.action.events,
            ApplyRewrites(i, trigger.action.network_rewrites,
                ApplyOverrides(i, trigger.action.overrides,
                    ApplyPatches(i, trigger.action.patches, [st |-> st, au |-> au])))))

----------------------------------------------------------------------------
(* Trigger engine (backend/app/simulation/triggers.py) *)

\* expire_triggers over the fire-turn dictionary `times` (name -> turn).
\* Variant: a trigger expires only after more than expires_after_turns turns.
RECURSIVE ExpiredNames_Strict(_, _, _)
ExpiredNames_Strict(st, triggers, times) ==
    IF triggers = << >> THEN << >>
    ELSE LET trigger == Head(triggers)
             rest == ExpiredNames_Strict(st, Tail(triggers), times)
         IN  IF /\ trigger.expires_after_turns # None
                /\ trigger.name \in DOMAIN times
                /\ st.t - times[trigger.name] > trigger.expires_after_turns
             THEN <<trigger.name>> \o rest
             ELSE rest

RECURSIVE ExpiredNames(_, _, _)
ExpiredNames(st, triggers, times) ==
    IF triggers = << >> THEN << >>
    ELSE LET trigger == Head(triggers)
             rest == ExpiredNames(st, Tail(triggers), times)
         IN  IF /\ trigger.expires_after_turns # None
                /\ trigger.name \in DOMAIN times
                /\ st.t - times[trigger.name] >= trigger.expires_after_turns
             THEN <<trigger.name>> \o rest
             ELSE rest

SeqRange(s) == {s[i] : i \in 1..Len(s)}

expire_triggers(st, triggers, times) ==
    LET expired == ExpiredNames(st, triggers, times)
    IN  [expired |-> expired,
         fired_triggers |-> [n \in DOMAIN times \ SeqRange(expired) |-> times[n]]]

----------------------------------------------------------------------------
(* The step request (backend/app/api/simulation.py, step_simulation) *)

\* The Trigger object built from a ScenarioTrigger row.
TriggerOf(row) ==
    [ name |-> row.name, condition |-> row.condition, action |-> row.action,
      expires_after_turns |-> row.expires_after_turns ]

Triggers(rows) == [i \in 1..Len(rows) |-> TriggerOf(rows[i])]

\* fired_triggers as loaded from the rows.
LoadFiredTriggers(rows) ==
    {rows[i].name : i \in {j \in 1..Len(rows) : rows[j].has_fired /\ rows[j].once_only}}

\* fired_trigger_times as loaded from the rows: a later row of the same name
\* overwrites an earlier one; a turn of None or 0 is not stored.
RECURSIVE LoadFiredTimes(_, _)
LoadFiredTimes(rows, times) ==
    IF rows = << >> THEN times
    ELSE LET row == Head(rows)
             stored == /\ row.has_fired /\ row.once_only
                       /\ row.last_fired_at_turn # None /\ row.last_fired_at_turn # 0
         IN  LoadFiredTimes(Tail(rows),
                 IF stored
                 THEN [n \in DOMAIN times \cup {row.name} |->
                          IF n = row.name THEN row.last_fired_at_turn ELSE times[n]]
                 ELSE times)

EmptyDict == [n \in {} |-> 0]

\* Variant: conditions read the live state (at the next turn number).
ConditionState_Live(trigger_eval_state, live_state) ==
    [live_state EXCEPT !.t = trigger_eval_state.t]

\* The state a trigger's condition is evaluated on.
ConditionState(trigger_eval_state, live_state) == trigger_eval_state

\* The trigger loop.  acc: the live state, the journal, the local fired set,
\* newly_fired, and (history) the rows that fired.
\* `if apply_trigger(current_state, trigger, audit):` and the bookkeeping under it.
Fired(acc, i, trigger, applied) ==
    IF applied.success
    THEN [ st |-> applied.st,
           au |-> add_trigger_fired(applied.au, trigger.name),
           fired_triggers |-> IF trigger.condition.once
                              THEN acc.fired_triggers \cup {trigger.name}
                              ELSE acc.fired_triggers,
           newly_fired |-> Append(acc.newly_fired, trigger.name),
           fired_rows |-> Append(acc.fired_rows, i) ]
    ELSE acc

\* One pass of the trigger loop.
TriggerPass(trigger, i, trigger_eval_state, acc) ==
    IF trigger.condition.once /\ trigger.name \in acc.fired_triggers THEN acc
    ELSE IF eval_condition(ConditionState(trigger_eval_state, acc.st), trigger.condition.when)
    THEN Fired(acc, i, trigger, apply_trigger(acc.st, i, trigger, acc.au))
    ELSE acc

RECURSIVE TriggerLoop(_, _, _, _)
TriggerLoop(triggers, i, trigger_eval_state, acc) ==
    IF i > Len(triggers) THEN acc
    ELSE TriggerLoop(triggers, i + 1, trigger_eval_state,
                     TriggerPass(triggers[i], i, trigger_eval_state, acc))

\* "Update trigger states in database": the first row of the name is marked.
FirstRowNamed(rows, name) ==
    CHOOSE i \in 1..Len(rows) :
        rows[i].name = name /\ \A j \in 1..(i - 1) : rows[j].name # name

RECURSIVE MarkFired(_, _, _)
MarkFired(rows, newly_fired, next_timestep) ==
    IF newly_fired = << >> THEN rows
    ELSE LET k == FirstRowNamed(rows, Head(newly_fired))
         IN  MarkFired([rows EXCEPT ![k].has_fired = TRUE,
                                    ![k].times_fired = @ + 1,
                                    ![k].last_fired_at_turn = next_timestep],
                       Tail(newly_fired), next_timestep)

base_ccy_country_map(base_ccy) ==
    CASE base_ccy = "USD" -> "USA"
      [] base_ccy = "CNY" -> "CHN"
      [] base_ccy = "EUR" -> "EUR"
      [] base_ccy = "JPY" -> "JPN"
      [] base_ccy = "GBP" -> "GBR"
      [] OTHER -> "USA"

CurrentStateRecord ==
    CHOOSE r \in SeqRange(sim_states) : r.timestep = current_timestep

\* Everything step_simulation computes from the rows it loaded.
StepRecord(current_state, rows, next_timestep, loaded, loop, exp, base_country_name, red) ==
    [ stepped |-> TRUE,
      current_state |-> current_state,
      rows |-> rows,
      next_timestep |-> next_timestep,
      trigger_eval_state |-> loaded.trigger_eval_state,
      loaded_fired |-> loaded.fired_triggers,
      loaded_times |-> loaded.fired_trigger_times,
      fired_triggers |-> loop.fired_triggers,
      fired_trigger_times |-> exp.fired_triggers,
      newly_fired |-> loop.newly_fired,
      fired_rows |-> loop.fired_rows,
      expired_triggers |-> exp.expired,
      triggered_state |-> loop.st,
      base_country_name |-> base_country_name,
      new_state |-> red.st,
      step_audit |-> red.au,
      db_triggers |-> MarkFired(rows, loop.newly_fired, next_timestep) ]

\* expire_triggers, then reduce_world on the state the triggers left.
Reduced(current_state, rows, next_timestep, loaded, loop, base_country_name) ==
    StepRecord(current_state, rows, next_timestep, loaded, loop,
               expire_triggers(loop.st, loaded.triggers, loaded.fired_trigger_times),
               base_country_name,
               finalize(reduce_world(loop.st, base_country_name, loop.au),
                        loaded.utcnow + 1))

\* From "Update trigger states in database" to audit.finalize().
AfterTriggers(current_state, rows, next_timestep, loaded, loop) ==
    Reduced(current_state, rows, next_timestep, loaded, loop,
            base_ccy_country_map(loop.st.base_ccy))

\* The trigger loop, on what was loaded.
WithLoaded(current_state, rows, next_timestep, loaded) ==
    AfterTriggers(current_state, rows, next_timestep, loaded,
        TriggerLoop(loaded.triggers, 1, loaded.trigger_eval_state,
                    [ st |-> current_state, au |-> NewAudit(next_timestep, loaded.utcnow),
                      fired_triggers |-> loaded.fired_triggers,
                      newly_fired |-> << >>, fired_rows |-> << >> ]))

\* utcnow is the clock's reading when the step starts; the reading at
\* finalize() is one tick later.
StepResult(current_state, rows, timestep, utcnow) ==
    WithLoaded(current_state, rows, timestep + 1,
               [ utcnow |-> utcnow,
                 triggers |-> Triggers(rows),
                 fired_triggers |-> LoadFiredTriggers(rows),
                 fired_trigger_times |-> LoadFiredTimes(rows, EmptyDict),
                 trigger_eval_state |-> [current_state EXCEPT !.t = timestep + 1] ])

\* Variant: change_order counts from one.
create_audit_log_CountFromOne(audit, audit_log_id) ==
    { [ audit_log_id |-> audit_log_id,
        change_order |-> i,
        field_path   |-> audit.field_changes[i].field_path,
        old_value    |-> audit.field_changes[i].old_value,
        new_value    |-> audit.field_changes[i].new_value,
        reducer_name |-> audit.field_changes[i].reducer_name ] :
      i \in 1..Len(audit.field_changes) }

\* create_audit_log: the FieldChangeLog rows written for one StepAudit,
\* `for i, field_change in enumerate(audit.field_changes)`.
create_audit_log(audit, audit_log_id) ==
    { [ audit_log_id |-> audit_log_id,
        change_order |-> i - 1,
        field_path   |-> audit.field_changes[i].field_path,
        old_value    |-> audit.field_changes[i].old_value,
        new_value    |-> audit.field_changes[i].new_value,
        reducer_name |-> audit.field_changes[i].reducer_name ] :
      i \in 1..Len(audit.field_changes) }

\* "Store new simulation state", the audit log, the trigger rows and
\* scenario.current_timestep, committed together.
Commit(res) ==
    /\ sim_states' = Append(sim_states,
                            [timestep |-> res.next_timestep, state_data |-> res.new_state])
    /\ audit_logs' = Append(audit_logs, res.step_audit)
    /\ field_change_logs' = field_change_logs
                               \cup create_audit_log(res.step_audit, Len(audit_logs) + 1)
    /\ db_triggers' = res.db_triggers
    /\ current_timestep' = res.next_timestep
    /\ last' = res
    /\ fired_steps' = [i \in DOMAIN fired_steps |->
                          IF InSeq(i, res.fired_rows) THEN fired_steps[i] + 1
                          ELSE fired_steps[i]]

step_simulation ==
    /\ current_timestep < MaxSteps
    /\ Commit(StepResult(CurrentStateRecord.state_data, db_triggers, current_timestep,
                          clock))
    /\ clock' = clock + 2
    /\ UNCHANGED requests

----------------------------------------------------------------------------
(* Scenarios: the initial states and trigger lists create_scenario is given *)

\* test_reduce_world's country: every field the reducers read is known.
FullCountry(code) ==
    [ name |-> code,
      macro |-> [ gdp |-> 1000, potential_gdp |-> 950, inflation |-> 250,
                  unemployment |-> 400, output_gap |-> 530, primary_balance |-> -300,
                  debt_gdp |-> 9500, neutral_rate |-> 250, policy_rate |-> 500,
                  inflation_target |-> 200, sfa |-> 0 ],
      external |-> [ fx_rate |-> 10000, reserves_usd |-> 1500,
                     current_account_gdp |-> -250, net_errors_omissions_gdp |-> 0 ],
      finance |-> [ sovereign_yield |-> 450 ],
      trade |-> [ exports_gdp |-> 1200, imports_gdp |-> 1500, tariff_mfn_avg |-> 500 ],
      security |-> [ milex_gdp |-> 350, personnel |-> 1000 ] ]

\* A country of which only inflation and the policy rate are known.
SparseCountry(code) ==
    [ name |-> code,
      macro |-> [ gdp |-> None, potential_gdp |-> None, inflation |-> 800,
                  unemployment |-> None, output_gap |-> None, primary_balance |-> None,
                  debt_gdp |-> None, neutral_rate |-> None, policy_rate |-> 200,
                  inflation_target |-> 200, sfa |-> 0 ],
      external |-> [ fx_rate |-> 12000, reserves_usd |-> None,
                     current_account_gdp |-> None, net_errors_omissions_gdp |-> 0 ],
      finance |-> [ sovereign_yield |-> None ],
      trade |-> [ exports_gdp |-> None, imports_gdp |-> None, tariff_mfn_avg |-> None ],
      security |-> [ milex_gdp |-> None, personnel |-> None ] ]

\* A country whose potential_gdp is 0: output_gap_update and debt_update divide by it.
ZeroPotentialCountry(code) ==
    [FullCountry(code) EXCEPT !.macro.potential_gdp = 0]

\* A country of which only the policy rate is known, and that rate negative.
NegativeRateCountry(code) ==
    [SparseCountry(code) EXCEPT !.macro.inflation = None,
                                !.macro.policy_rate = -100,
                                !.external.fx_rate = None]

Profiles == {"full", "sparse", "zero", "negative"}

Country(code, profile) ==
    CASE profile = "full" -> FullCountry(code)
      [] profile = "sparse" -> SparseCountry(code)
      [] profile = "zero" -> ZeroPotentialCountry(code)
      [] profile = "negative" -> NegativeRateCountry(code)

\* RegimeParams' default factories, and variants of them.
DefaultRegimes ==
    [ monetary |-> [rule |-> "taylor", phi_pi |-> 5000, phi_y |-> 5000],
      fx |-> [uip_rho_base |-> 0],
      fiscal |-> [wealth_tax_rate |-> 0, elasticity_saving |-> -3000],
      trade |-> [tariff_multiplier |-> 10000, ntm_shock |-> 0],
      security |-> [mobilization_intensity |-> 0],
      labor |-> [national_service_pct |-> 0] ]

RegimeNames == {"default", "active", "fx_peg", "unknown_rule"}

Regimes(name) ==
    CASE name = "default" -> DefaultRegimes
      [] name = "active" ->
            [DefaultRegimes EXCEPT !.fiscal.wealth_tax_rate = 200,
                                   !.labor.national_service_pct = 20000,
                                   !.security.mobilization_intensity = 10000,
                                   !.trade.ntm_shock = 100]
      [] name = "fx_peg" -> [DefaultRegimes EXCEPT !.monetary.rule = "fx_peg"]
      [] name = "unknown_rule" -> [DefaultRegimes EXCEPT !.monetary.rule = "inflation_band"]

\* The countries dictionaries (key order and profile of each key) and base_ccy.
Entry(code, profile) == [code |-> code, profile |-> profile]

Worlds ==
    { [setup |-> <<Entry("USA", p)>>, base_ccy |-> "USD"] : p \in Profiles }
    \cup { [setup |-> <<Entry("CHN", "full")>>, base_ccy |-> b] : b \in {"USD", "CNY"} }
    \cup { [setup |-> <<Entry("USA", "full"), Entry("CHN", "zero")>>, base_ccy |-> b] :
              b \in {"USD", "CNY"} }
    \cup { [setup |-> <<Entry("USA", "sparse"), Entry("CHN", "full")>>, base_ccy |-> "USD"],
           [setup |-> <<Entry("CHN", "sparse"), Entry("USA", "full")>>, base_ccy |-> "USD"],
           [setup |-> <<Entry("CHN", "zero"), Entry("USA", "sparse")>>, base_ccy |-> "XXX"],
           [setup |-> <<Entry("CHN", "zero"), Entry("USA", "full")>>, base_ccy |-> "USD"] }

\* test_trade_war_scenario's trade matrix, restricted to the countries present.
TradeMatrix(codes) ==
    [a \in codes \cap {"USA", "CHN"} |->
        [b \in (codes \cap {"USA", "CHN"}) \ {a} |-> IF a = "USA" THEN 120000 ELSE 450000]]

GlobalState(setup, base_ccy, regime) ==
    [ t |-> 0,
      base_ccy |-> base_ccy,
      countries_keys |-> [i \in 1..Len(setup) |-> setup[i].code],
      countries |-> [c \in {setup[i].code : i \in 1..Len(setup)} |->
                        Country(c, setup[CHOOSE i \in 1..Len(setup) :
                                                setup[i].code = c].profile)],
      trade_matrix |-> TradeMatrix({setup[i].code : i \in 1..Len(setup)}),
      sanctions |-> EmptyDict,
      rules |-> [regimes |-> Regimes(regime)] ]

PolicyRatePath(code) == <<"countries", code, "macro", "policy_rate">>

Patch(path, op, value) == [path |-> path, op |-> op, value |-> value]

TriggerAction(patches, overrides, network_rewrites, events) ==
    [ patches |-> patches, overrides |-> overrides,
      network_rewrites |-> network_rewrites, events |-> events ]

Trigger(name, when, once, expires_after_turns, patches) ==
    [ name |-> name,
      condition |-> [when |-> when, once |-> once],
      action |-> TriggerAction(patches, << >>, << >>, << >>),
      expires_after_turns |-> expires_after_turns ]

ReducerOverride(target, impl_name) == [target |-> target, impl_name |-> impl_name]

NetworkRewrite(layer, edits) == [layer |-> layer, edits |-> edits]

EventInject(kind) == [kind |-> kind]

\* Triggers that patch policy parameters.
PolicyTriggers ==
    { \* emergency rate cut (test_simple_policy_shock): "t >= 2", once
      Trigger("rate_cut", [kind |-> "t", op |-> ">=", n |-> 2], TRUE, None,
              <<Patch(PolicyRatePath("USA"), "set", 0)>>),
      \* a recurring hike of the USA rate, unconditional
      Trigger("hike", [kind |-> "empty"], FALSE, None,
              <<Patch(PolicyRatePath("USA"), "add", 100)>>),
      \* a sunset tariff, fired while the USA rate is low
      Trigger("tariffs", [kind |-> "country", code |-> "USA", slice |-> "macro",
                          field |-> "policy_rate", op |-> "<", value |-> 300],
              TRUE, 1, <<Patch(<<"rules", "regimes", "trade", "tariff_multiplier">>,
                               "set", 20000)>>),
      \* a second trigger registered under the name "hike", once-only, sunset
      Trigger("hike", [kind |-> "empty"], TRUE, 2,
              <<Patch(PolicyRatePath("CHN"), "set", 700),
                Patch(<<"countries", "CHN", "macro", "inflation">>, "mul", 20000)>>),
      \* a patch of a country that may be absent
      Trigger("rus_rate", [kind |-> "date", op |-> ">=", year |-> 2025], TRUE, 1,
              <<Patch(PolicyRatePath("RUS"), "set", 900)>>) }

\* Triggers with overrides, network rewrites, events, and conditions on
\* missing values.
ActionTriggers ==
    { \* a watch on a country that may be absent:
      \* "country('RUS').macro.inflation != 0.05"
      Trigger("rus_watch", [kind |-> "country", code |-> "RUS", slice |-> "macro",
                            field |-> "inflation", op |-> "!=", value |-> 500],
              TRUE, None, <<Patch(<<"rules", "regimes", "trade", "ntm_shock">>, "add", 100)>>),
      \* load_trigger_examples' regime switch: a reducer override and two
      \* patches of the monetary regime, fired on a weak currency
      [ Trigger("switch_to_fx_peg",
                [kind |-> "country", code |-> "USA", slice |-> "external",
                 field |-> "fx_rate", op |-> ">", value |-> 11000], TRUE, 4, << >>)
        EXCEPT !.action = TriggerAction(
            <<Patch(<<"rules", "regimes", "monetary", "peg_target">>, "set", 10000),
              Patch(<<"rules", "regimes", "monetary", "peg_strength">>, "set", 30000)>>,
            <<ReducerOverride("monetary_policy", "fx_peg")>>, << >>, << >>) ],
      \* test_trade_war_scenario's trade volume adjustment, with a doubling of
      \* the wealth tax rate and an embargo event
      [ Trigger("trade_volume", [kind |-> "t", op |-> ">=", n |-> 1], TRUE, None, << >>)
        EXCEPT !.action = TriggerAction(
            <<Patch(<<"rules", "regimes", "fiscal", "wealth_tax_rate">>, "mul", 20000)>>,
            << >>,
            <<NetworkRewrite("trade", << <<"USA", "CHN", 60000>>, <<"CHN", "USA", 200000>> >>)>>,
            <<EventInject("embargo")>>) ],
      \* load_trigger_examples' trade_war_sanctions: its condition
      \* "rules.regimes.trade.tariff_multiplier>1.5" names `rules`, which the
      \* evaluation context does not define
      [ Trigger("trade_war_sanctions", [kind |-> "malformed"], TRUE, None, << >>)
        EXCEPT !.action = TriggerAction(
            << >>, << >>,
            <<NetworkRewrite("sanctions", << <<"USA", "CHN", 3000>>, <<"CHN", "USA", 3000>> >>)>>,
            << >>) ] }

TriggerCatalogue == PolicyTriggers \cup ActionTriggers

RECURSIVE SeqsUpTo(_, _)
SeqsUpTo(S, n) ==
    IF n = 0 THEN {<< >>}
    ELSE LET shorter == SeqsUpTo(S, n - 1)
         IN  shorter \cup {Append(q, x) : q \in {r \in shorter : Len(r) = n - 1}, x \in S}

\* The row create_scenario stores for a trigger.
ScenarioTrigger(trigger) ==
    [ name |-> trigger.name,
      condition |-> trigger.condition,
      action |-> trigger.action,
      once_only |-> trigger.condition.once,
      expires_after_turns |-> trigger.expires_after_turns,
      has_fired |-> FALSE,
      times_fired |-> 0,
      last_fired_at_turn |-> None ]

NoStep == [stepped |-> FALSE]

\* The worlds and regimes the action triggers are registered with.
ActionWorlds ==
    { [setup |-> <<Entry("USA", "sparse")>>, base_ccy |-> "USD"],
      [setup |-> <<Entry("USA", "sparse"), Entry("CHN", "full")>>, base_ccy |-> "USD"] }

\* The scenarios created: policy triggers with every world and regime, action
\* triggers with the action worlds.
Scenario(world, regime, triggers) ==
    \/ \A i \in 1..Len(triggers) : triggers[i] \in PolicyTriggers
    \/ /\ \A i \in 1..Len(triggers) : triggers[i] \in ActionTriggers
       /\ world \in ActionWorlds
       /\ regime \in {"default", "active"}

\* The readings of the wall clock when the scenario is created.
ClockStarts == {0, 1}

\* The step requests a scenario may have in flight at once.
Requests == {1, 2}

Idle == [pc |-> "idle", timestep |-> None, res |-> NoStep]

\* create_scenario: current_timestep 0, the initial state stored at timestep 0,
\* one row per trigger.
Created(world, regime, triggers, utcnow) ==
    /\ clock = utcnow
    /\ current_timestep = 0
    /\ sim_states = <<[timestep |-> 0,
                       state_data |-> GlobalState(world.setup, world.base_ccy, regime)]>>
    /\ db_triggers = [i \in 1..Len(triggers) |-> ScenarioTrigger(triggers[i])]
    /\ audit_logs = << >>
    /\ field_change_logs = {}
    /\ requests = [r \in Requests |-> Idle]
    /\ last = NoStep
    /\ fired_steps = [i \in 1..Len(triggers) |-> 0]

Init ==
    \E world \in Worlds, regime \in RegimeNames,
       triggers \in SeqsUpTo(TriggerCatalogue, MaxTriggers), utcnow \in ClockStarts :
        /\ Scenario(world, regime, triggers)
        /\ Created(world, regime, triggers, utcnow)

Next == step_simulation

Spec == Init /\ [][Next]_vars

----------------------------------------------------------------------------
(* The step request as the database sees it: its reads, its two commits and
   its failures, for requests of one scenario running at the same time. *)

\* "Get scenario": the request reads scenario.current_timestep.
GetScenario(r) ==
    /\ requests[r].pc = "idle"
    /\ current_timestep < MaxSteps
    /\ requests' = [requests EXCEPT ![r] = [pc |-> "scenario", timestep |-> current_timestep,
                                            res |-> NoStep]]
    /\ UNCHANGED <<current_timestep, sim_states, db_triggers, audit_logs,
                   field_change_logs, clock, last, fired_steps>>

\* The SimulationState row of a timestep (the unique index allows one).
StateRecordAt(timestep) ==
    CHOOSE rec \in SeqRange(sim_states) : rec.timestep = timestep

\* "Get current state", "Get scenario triggers", and everything up to
\* audit.finalize(): computed in the request's session, nothing stored yet.
ComputeStep(r) ==
    /\ requests[r].pc = "scenario"
    /\ requests' = [requests EXCEPT ![r] =
          [pc |-> "computed", timestep |-> requests[r].timestep,
           res |-> StepResult(StateRecordAt(requests[r].timestep).state_data, db_triggers,
                              requests[r].timestep, clock)]]
    /\ UNCHANGED <<current_timestep, sim_states, db_triggers, audit_logs,
                   field_change_logs, clock, last, fired_steps>>

\* Variant: the index is not unique.
IntegrityError_NoUniqueIndex(timestep) ==
    FALSE

\* A row for the timestep is already stored: the INSERT breaks the unique index
\* ix_simulation_states_scenario_timestep.
IntegrityError(timestep) ==
    \E k \in 1..Len(sim_states) : sim_states[k].timestep = timestep

\* The UPDATE of the trigger rows the request changed in its session.
UpdatedRows(res) ==
    [i \in DOMAIN db_triggers |->
        IF res.db_triggers[i] # res.rows[i] THEN res.db_triggers[i] ELSE db_triggers[i]]

\* db.add(new_state_record), flush, then create_audit_log, whose db.commit()
\* commits the state row, the audit rows and the pending trigger updates.
StoreStep(r) ==
    /\ requests[r].pc = "computed"
    /\ ~IntegrityError(requests[r].res.next_timestep)
    /\ sim_states' = Append(sim_states, [timestep |-> requests[r].res.next_timestep,
                                         state_data |-> requests[r].res.new_state])
    /\ audit_logs' = Append(audit_logs, requests[r].res.step_audit)
    /\ field_change_logs' = field_change_logs
                               \cup create_audit_log(requests[r].res.step_audit,
                                                     Len(audit_logs) + 1)
    /\ db_triggers' = UpdatedRows(requests[r].res)
    /\ last' = requests[r].res
    /\ fired_steps' = [i \in DOMAIN fired_steps |->
                          IF InSeq(i, requests[r].res.fired_rows) THEN fired_steps[i] + 1
                          ELSE fired_steps[i]]
    /\ clock' = clock + 2
    /\ requests' = [requests EXCEPT ![r].pc = "stored"]
    /\ UNCHANGED current_timestep

\* The flush fails on the unique index: `except Exception` rolls back and the
\* request answers 500.
StoreConflict(r) ==
    /\ requests[r].pc = "computed"
    /\ IntegrityError(requests[r].res.next_timestep)
    /\ requests' = [requests EXCEPT ![r] = Idle]
    /\ UNCHANGED <<current_timestep, sim_states, db_triggers, audit_logs,
                   field_change_logs, clock, last, fired_steps>>

\* "Update scenario current timestep" and the request's own db.commit().
AdvanceTimestep(r) ==
    /\ requests[r].pc = "stored"
    /\ current_timestep' = requests[r].res.next_timestep
    /\ requests' = [requests EXCEPT ![r] = Idle]
    /\ UNCHANGED <<sim_states, db_triggers, audit_logs, field_change_logs, clock, last,
                   fired_steps>>

\* The request ends early (an exception, a lost connection, a cancelled task):
\* what it had not committed is rolled back, what it had committed stays.
FailStep(r) ==
    /\ requests[r].pc \in {"scenario", "computed", "stored"}
    /\ requests' = [requests EXCEPT ![r] = Idle]
    /\ UNCHANGED <<current_timestep, sim_states, db_triggers, audit_logs,
                   field_change_logs, clock, last, fired_steps>>

\* The scenarios the concurrent requests run on.
TxWorlds ==
    { [setup |-> <<Entry("USA", "sparse")>>, base_ccy |-> "USD"],
      [setup |-> <<Entry("CHN", "full")>>, base_ccy |-> "USD"] }

TxTriggers == {tr \in PolicyTriggers : tr.name \in {"rate_cut", "hike"}}

DistinctNames(triggers) ==
    \A i, j \in 1..Len(triggers) : i # j => triggers[i].name # triggers[j].name

InitTx ==
    \E world \in TxWorlds, triggers \in SeqsUpTo(TxTriggers, MaxTriggers) :
        /\ DistinctNames(triggers)
        /\ Created(world, "default", triggers, 0)

NextTx ==
    \E r \in Requests :
        \/ GetScenario(r)
        \/ ComputeStep(r)
        \/ StoreStep(r)
        \/ StoreConflict(r)
        \/ AdvanceTimestep(r)
        \/ FailStep(r)

SpecTx == InitTx /\ [][NextTx]_vars

----------------------------------------------------------------------------
(* Properties of a step.  `last` holds what the latest step_simulation call
   computed: current_state (as loaded), triggered_state (after the trigger
   loop), new_state (as stored) and step_audit. *)

HasBase(st) == base_ccy_country_map(st.base_ccy) \in DOMAIN st.countries

BasePresent == last.base_country_name \in DOMAIN last.triggered_state.countries

Changes == last.step_audit.field_changes

TriggerChange(fc) == fc.src.kind = "trigger"

ReducerChange(fc) == fc.src.kind = "reducer"

ReducerRaised == \E i \in 1..Len(last.step_audit.errors) :
                    last.step_audit.errors[i][1] = "Error in"

\* C1: when the base-currency country is present, reduce_world returns the
\* state with t exactly one greater than the t it was given, whatever the
\* regime parameters and whether or not reducers raised; over a sequence of
\* such steps the stored t never decreases and never skips a value.
C1_TimeAdvancesByOne ==
    /\ (last.stepped /\ BasePresent) => last.new_state.t = last.triggered_state.t + 1
    /\ \A k \in 1..(Len(sim_states) - 1) :
          HasBase(sim_states[k].state_data)
             => sim_states[k + 1].state_data.t = sim_states[k].state_data.t + 1

\* A second consecutive step with the base country present in which a reducer raised.
C1_Witness ==
    /\ last.stepped /\ BasePresent /\ ReducerRaised
    /\ last.triggered_state.t = 1 /\ last.new_state.t = 2

\* C2: when the base-currency country is absent, a step (triggers, then
\* reduce_world) leaves every field of the state, t included, unchanged, records
\* an error naming the missing country, and its audit holds no FieldChange and
\* an empty reducer_sequence, for every trigger list.
C2_MissingBaseLeavesStateUnchanged ==
    (last.stepped /\ ~BasePresent) =>
        /\ last.new_state = last.current_state
        /\ InSeq(<<"Base currency country not found", last.base_country_name>>,
                 last.step_audit.errors)
        /\ Changes = << >>
        /\ last.step_audit.reducer_sequence = << >>

\* C3: a step that failed because the base-currency country is missing does not
\* advance current_timestep and stores no state record for the new timestep.
C3_FailedStepNotPersisted ==
    (last.stepped /\ ~BasePresent) =>
        /\ current_timestep = last.next_timestep - 1
        /\ \A k \in 1..Len(sim_states) : sim_states[k].timestep # last.next_timestep

\* C4: in every step audit all FieldChanges made by triggers come before every
\* FieldChange made by a reducer, and of two triggers that fired in the step
\* the changes of the one declared earlier all come before those of the later.
C4_TriggerChangesFirst ==
    \A a \in 1..Len(audit_logs) :
        LET fcs == audit_logs[a].field_changes
        IN  \A i, j \in 1..Len(fcs) :
                i < j => /\ ~(ReducerChange(fcs[i]) /\ TriggerChange(fcs[j]))
                         /\ (TriggerChange(fcs[i]) /\ TriggerChange(fcs[j]))
                               => fcs[i].src.trig <= fcs[j].src.trig

\* A step in which two triggers and a reducer all recorded changes.
C4_Witness ==
    /\ last.stepped
    /\ \E i, j, k \in 1..Len(Changes) :
          /\ TriggerChange(Changes[i]) /\ TriggerChange(Changes[j])
          /\ Changes[i].src.trig # Changes[j].src.trig
          /\ ReducerChange(Changes[k])

TaylorInForce ==
    DictGet(last.triggered_state.rules.regimes.monetary, "rule", "taylor") = "taylor"

SkipMarkerPath(code) == <<"countries", code, "macro", "policy_rate_taylor_rule_skipped">>

TriggerWrotePolicyRate(code) ==
    \E i \in 1..Len(Changes) :
        TriggerChange(Changes[i]) /\ Changes[i].field_path = PolicyRatePath(code)

\* The value of the last trigger write on the policy-rate path of code.
TriggerWrittenRate(code) ==
    LET writes == {i \in 1..Len(Changes) : /\ TriggerChange(Changes[i])
                                          /\ Changes[i].field_path = PolicyRatePath(code)}
    IN  Changes[CHOOSE i \in writes : \A j \in writes : j <= i].new_value

C6_OnceFiresAtMostOnce ==
    \A i \in DOMAIN db_triggers :
        db_triggers[i].condition.once => fired_steps[i] <= 1

\* C7: a once-only trigger fired at turn f with expires_after_turns k is, once
\* (current turn - f) >= k holds in a step, no longer in the fired set nor in
\* the fire-turn map the next step starts from, so the once-only check no
\* longer suppresses it.
C7_ExpiredTriggerRearmed ==
    last.stepped =>
        \A i \in DOMAIN db_triggers :
            LET row == db_triggers[i]
            IN  ( /\ row.once_only /\ row.has_fired
                  /\ row.expires_after_turns # None /\ row.last_fired_at_turn # None
                  /\ last.current_state.t - row.last_fired_at_turn >= row.expires_after_turns )
                => /\ row.name \notin LoadFiredTriggers(db_triggers)
                   /\ row.name \notin DOMAIN LoadFiredTimes(db_triggers, EmptyDict)

\* The copy the conditions of a step are evaluated on.
Prospective == [last.current_state EXCEPT !.t = last.next_timestep]

\* Row i is passed over by the once-only check of the step.
OnceSuppressed(i) ==
    /\ db_triggers[i].condition.once
    /\ \/ db_triggers[i].name \in last.loaded_fired
       \/ \E j \in 1..(i - 1) : /\ InSeq(j, last.fired_rows)
                                /\ db_triggers[j].condition.once
                                /\ db_triggers[j].name = db_triggers[i].name

LastTriggerWrite(i) ==
    /\ TriggerChange(Changes[i])
    /\ \A j \in (i + 1)..Len(Changes) :
          TriggerChange(Changes[j]) => Changes[j].field_path # Changes[i].field_path

\* C8: the triggers that fire in a step are exactly those, not passed over by
\* the once-only check, whose condition is true on a copy of the pre-step state
\* with t set to the next turn number: no patch of an earlier trigger of the
\* same step is visible to a later condition.  The patches themselves land in
\* the live state.
C8_ConditionsReadPreStepCopy ==
    last.stepped =>
        /\ \A i \in DOMAIN db_triggers :
              InSeq(i, last.fired_rows)
                 <=> (~OnceSuppressed(i)
                      /\ eval_condition(Prospective, db_triggers[i].condition.when))
        /\ \A i \in 1..Len(Changes) :
              LastTriggerWrite(i)
                 => GetPath(last.triggered_state, Changes[i].field_path) = Changes[i].new_value

\* A step in which a later trigger fired on a condition that the patch of an
\* earlier trigger of the same step had made false in the live state.
C8_Witness ==
    /\ last.stepped
    /\ \E i, j \in DOMAIN db_triggers :
          /\ i < j /\ InSeq(i, last.fired_rows) /\ InSeq(j, last.fired_rows)
          /\ db_triggers[j].condition.when.kind = "country"
          /\ eval_condition(Prospective, db_triggers[j].condition.when)
          /\ ~eval_condition([last.triggered_state EXCEPT !.t = last.next_timestep],
                             db_triggers[j].condition.when)

\* C9: every change a step makes to a field of a country is recorded as a
\* FieldChange on that field's path, the default fills of a null output_gap,
\* neutral_rate or inflation_target included.
C9_EveryCountryChangeRecorded ==
    last.stepped =>
        \A c \in DOMAIN last.new_state.countries :
            \A slice \in DOMAIN last.new_state.countries[c] \ {"name"} :
                \A field \in DOMAIN last.new_state.countries[c][slice] :
                    last.new_state.countries[c][slice][field]
                          # last.current_state.countries[c][slice][field]
                       => \E i \in 1..Len(Changes) :
                             Changes[i].field_path = CountryPath(c, slice, field)

\* C10: when the base-currency country is present the audit's reducer_sequence
\* is the ten reducer names in their fixed order, each once, whether or not
\* reducers recorded changes or raised.
C10_ReducerSequenceFixed ==
    (last.stepped /\ BasePresent) =>
        last.step_audit.reducer_sequence =
            << "output_gap_update", "inflation_update", "monetary_policy",
               "fiscal_update", "debt_update", "fx_update", "trade_update",
               "labor_supply_update", "security_update", "bop_settlement" >>

\* A step with the base country present in which two reducers raised and
\* another recorded no change.
C10_Witness ==
    /\ last.stepped /\ BasePresent
    /\ Cardinality({i \in 1..Len(last.step_audit.errors) :
                       last.step_audit.errors[i][1] = "Error in"}) >= 2
    /\ \E r \in {"fx_update", "security_update", "bop_settlement"} :
          \A i \in 1..Len(Changes) : Changes[i].src.reducer # r

\* Position of a change's source in the order of a step: triggers, then the
\* reducers in pipeline order.
SourceRank(fc) ==
    IF TriggerChange(fc) THEN 0
    ELSE CHOOSE n \in 1..Len(reducer_sequence) : reducer_sequence[n] = fc.src.reducer

\* C11: the FieldChangeLog rows stored for a step audit with N FieldChanges
\* carry the change_order values 0..N-1, each once, and the row of order n is
\* the n-th change recorded in the step, trigger changes before reducer changes
\* and reducers in pipeline order.
C11_ChangeOrderDense ==
    \A k \in 1..Len(audit_logs) :
        LET rows == {r \in field_change_logs : r.audit_log_id = k}
            fcs == audit_logs[k].field_changes
        IN  /\ Cardinality(rows) = Len(fcs)
            /\ {r.change_order : r \in rows} = 0..(Len(fcs) - 1)
            /\ \A r \in rows :
                  /\ r.field_path = fcs[r.change_order + 1].field_path
                  /\ r.old_value = fcs[r.change_order + 1].old_value
                  /\ r.new_value = fcs[r.change_order + 1].new_value
            /\ \A r1, r2 \in rows :
                  r1.change_order < r2.change_order
                     => SourceRank(fcs[r1.change_order + 1])
                           <= SourceRank(fcs[r2.change_order + 1])

\* Rows stored for a step in which a trigger and two different reducers
\* recorded changes.
C11_Witness ==
    /\ last.stepped
    /\ \E r1, r2, r3 \in field_change_logs :
          /\ r1.audit_log_id = Len(audit_logs) /\ r2.audit_log_id = Len(audit_logs)
          /\ r3.audit_log_id = Len(audit_logs)
          /\ r1.change_order = 0 /\ TriggerChange(Changes[1])
          /\ r2.change_order < r3.change_order
          /\ ReducerChange(Changes[r2.change_order + 1])
          /\ ReducerChange(Changes[r3.change_order + 1])
          /\ Changes[r2.change_order + 1].src.reducer
                # Changes[r3.change_order + 1].src.reducer

\* The value a path holds when the writers of the step are done with it: the
\* new_value of the last change recorded on the path, else the value in the
\* state the step loaded (default when the path is absent there).
ValueLeft(path, default) ==
    LET writes == {i \in 1..Len(Changes) : Changes[i].field_path = path}
    IN  IF writes # {}
        THEN Changes[CHOOSE i \in writes : \A j \in writes : j <= i].new_value
        ELSE IF Navigate(last.current_state, path).found
        THEN GetPath(last.current_state, path)
        ELSE default

RegimePath(group, key) == <<"rules", "regimes", group, key>>

ChangesOf(reducer_name) ==
    {n \in 1..Len(Changes) : ReducerChange(Changes[n]) /\ Changes[n].src.reducer = reducer_name}

\* C12: within a step a reducer computes with the values written earlier in
\* that step.  The exchange rate written by fx_update is the UIP formula on the
\* domestic and base policy rates as triggers and monetary_policy left them; the
\* debt ratio written by debt_update uses the primary balance fiscal_update
\* left and the inflation inflation_update left; the trade shares written by
\* trade_update use the tariff multiplier as the step's triggers left it.
C12_ReducersReadEarlierWrites ==
    last.stepped =>
        /\ \A n \in ChangesOf("fx_update") :
              LET c == Changes[n].field_path[2]
                  interest_differential ==
                      ValueLeft(PolicyRatePath(c), None)
                         - ValueLeft(PolicyRatePath(last.base_country_name), None)
                  rho == ValueLeft(RegimePath("fx", "uip_rho_base"), 0)
              IN  Changes[n].new_value
                     = Mul(Changes[n].old_value,
                           SCALE + Mul(interest_differential + rho, FxPassThrough))
        /\ \A n \in ChangesOf("debt_update") :
              LET c == Changes[n].field_path[2]
                  m == last.new_state.countries[c].macro
                  primary_balance == ValueLeft(CountryPath(c, "macro", "primary_balance"), None)
                  inflation == ValueLeft(CountryPath(c, "macro", "inflation"), None)
                  real_interest_rate ==
                      last.new_state.countries[c].finance.sovereign_yield
                         - Or(inflation, FallbackRate)
                  gdp_growth == ((m.gdp - m.potential_gdp) * SCALE) \div m.potential_gdp
              IN  Changes[n].new_value
                     = Mul(Changes[n].old_value,
                           ((SCALE + real_interest_rate) * SCALE) \div (SCALE + gdp_growth))
                       - primary_balance + m.sfa
        /\ \A n \in ChangesOf("trade_update") :
              LET c == Changes[n].field_path[2]
                  tariff_multiplier == ValueLeft(RegimePath("trade", "tariff_multiplier"),
                                                 TariffMultiplierDefault)
                  ntm_shock == ValueLeft(RegimePath("trade", "ntm_shock"), 0)
                  old_tariff == last.new_state.countries[c].trade.tariff_mfn_avg
                  tariff_impact ==
                      IF old_tariff # None
                      THEN Mul(TradeElasticity, Mul(old_tariff, tariff_multiplier) - old_tariff)
                      ELSE 0
              IN  Changes[n].new_value
                     = Mul(Changes[n].old_value,
                           SCALE + tariff_impact + Mul(0 - ntm_shock, NtmElasticity))

\* A step in which a trigger wrote the base country's policy rate and the
\* tariff multiplier, monetary_policy, inflation_update and fiscal_update each
\* changed a value, and fx_update, debt_update and trade_update then wrote.
C12_Witness ==
    /\ last.stepped
    /\ \E i, j \in 1..Len(Changes) :
          /\ TriggerChange(Changes[i]) /\ TriggerChange(Changes[j])
          /\ Changes[i].field_path = PolicyRatePath(last.base_country_name)
          /\ Changes[i].new_value # Changes[i].old_value
          /\ Changes[j].field_path = RegimePath("trade", "tariff_multiplier")
          /\ Changes[j].new_value # Changes[j].old_value
    /\ \A r \in {"monetary_policy", "inflation_update", "fiscal_update"} :
          \E n \in ChangesOf(r) : /\ Changes[n].new_value # Changes[n].old_value
                                  /\ Changes[n].new_value # None
    /\ \A r \in {"fx_update", "debt_update", "trade_update"} :
          \E n \in ChangesOf(r) : Changes[n].new_value # Changes[n].old_value

CompareOps == {"<", "<=", "==", "!=", ">=", ">"}

\* Row i's condition compares a country field that is missing from the state
\* the step's conditions are evaluated on.
ComparesMissing(i) ==
    /\ db_triggers[i].condition.when.kind = "country"
    /\ db_triggers[i].condition.when.op \in CompareOps
    /\ safe_getattr(last.trigger_eval_state, db_triggers[i].condition.when.code,
                    db_triggers[i].condition.when.slice,
                    db_triggers[i].condition.when.field) = None

\* C13: a condition comparing country('X').<path> with a number is false, for
\* each of the six comparison operators, when X is absent or the field is null
\* or unresolved, so the trigger holding it does not fire; the empty condition
\* is true.
C13_MissingValueComparesFalse ==
    last.stepped =>
        /\ \A i \in 1..Len(db_triggers) :
              ComparesMissing(i)
                 => /\ ~eval_condition(last.trigger_eval_state, db_triggers[i].condition.when)
                    /\ ~InSeq(i, last.fired_rows)
        /\ eval_condition(last.trigger_eval_state, [kind |-> "empty"])

\* The rows that fired in the latest step.
FiredRows == {last.fired_rows[k] : k \in 1..Len(last.fired_rows)}

\* The state field holding a network layer, and the audit path of one of its cells.
LayerField(layer) == IF layer = "trade" THEN "trade_matrix" ELSE layer

MatrixPath(layer, from_node, to_node) ==
    <<IF layer = "trade" THEN "trade_matrix" ELSE "sanctions_matrix", from_node, to_node>>

\* C14: after a step in which a trigger with a network_rewrite fired, for every
\* edit (from, to, weight) the layer's matrix holds weight at [from][to], and
\* the audit holds one FieldChange at <layer>_matrix.<from>.<to> whose
\* new_value is the weight.
C14_NetworkRewriteApplied ==
    last.stepped =>
        \A i \in FiredRows :
            \A n \in 1..Len(db_triggers[i].action.network_rewrites) :
                LET rewrite == db_triggers[i].action.network_rewrites[n]
                    matrix == last.new_state[LayerField(rewrite.layer)]
                IN  \A e \in 1..Len(rewrite.edits) :
                        LET from_node == rewrite.edits[e][1]
                            to_node == rewrite.edits[e][2]
                            weight == rewrite.edits[e][3]
                        IN  /\ from_node \in DOMAIN matrix
                            /\ to_node \in DOMAIN matrix[from_node]
                            /\ matrix[from_node][to_node] = weight
                            /\ Cardinality({c \in 1..Len(Changes) :
                                    /\ Changes[c].field_path
                                          = MatrixPath(rewrite.layer, from_node, to_node)
                                    /\ Changes[c].new_value = weight}) = 1

\* The journal as reduce_world received it in the latest step: the triggers'
\* entries only.
PreReduceAudit ==
    [last.step_audit EXCEPT !.field_changes = SelectSeq(@, TriggerChange),
                            !.reducer_sequence = << >>]

\* C15: once a trigger with ReducerOverride(monetary_policy, X) has fired, the
\* cell rules.reducer_overrides.monetary_policy holds X and the monetary_policy
\* pass of that step and of the later steps runs implementation X, whatever
\* rules.regimes.monetary.rule names.
C15_OverrideSelectsImplementation ==
    last.stepped =>
        \A i \in 1..Len(db_triggers) :
            \A n \in 1..Len(db_triggers[i].action.overrides) :
                LET override == db_triggers[i].action.overrides[n]
                IN  (db_triggers[i].has_fired /\ BasePresent
                       /\ override.target = "monetary_policy")
                    => /\ "reducer_overrides" \in DOMAIN last.new_state.rules
                       /\ last.new_state.rules.reducer_overrides.monetary_policy
                             = override.impl_name
                       /\ last.new_state.countries
                             = reduce_world(
                                  [last.triggered_state EXCEPT
                                      !.rules.regimes.monetary.rule = override.impl_name],
                                  last.base_country_name, PreReduceAudit).st.countries

\* The patches of the trigger row that recorded change c on the change's path.
PatchesOf(c) ==
    {p \in {db_triggers[Changes[c].src.trig].action.patches[n] :
               n \in 1..Len(db_triggers[Changes[c].src.trig].action.patches)} :
        p.path = Changes[c].field_path}

\* C16: a policy patch writes value (set), old + value (add) or old * value
\* (mul) for every non-null old value of the cell, 0 included; only a null old
\* value is replaced, by 0 for add and by 1 for mul.
C16_PatchArithmetic ==
    last.stepped =>
        \A c \in 1..Len(Changes) :
            TriggerChange(Changes[c]) =>
                \A p \in PatchesOf(c) :
                    /\ Changes[c].new_value
                          = CASE p.op = "set" -> p.value
                              [] p.op = "add" ->
                                    (IF Changes[c].old_value = None THEN 0
                                     ELSE Changes[c].old_value) + p.value
                              [] p.op = "mul" ->
                                    Mul(IF Changes[c].old_value = None THEN SCALE
                                        ELSE Changes[c].old_value, p.value)
                    /\ LastTriggerWrite(c)
                          => GetPath(last.triggered_state, Changes[c].field_path)
                                = Changes[c].new_value

\* C17: every FieldChange names its source in reducer_name: "trigger:<name>"
\* for a change applied by the trigger of that name, the reducer's own name
\* for a change made by a reducer.
C17_ChangeNamesSource ==
    last.stepped =>
        \A c \in 1..Len(Changes) :
            /\ TriggerChange(Changes[c])
                  => Changes[c].reducer_name
                        = "trigger:" \o db_triggers[Changes[c].src.trig].name
            /\ ReducerChange(Changes[c])
                  => Changes[c].reducer_name = Changes[c].src.reducer

\* The latest step request served again from the same stored state, trigger
\* rows and timestep, with the wall clock one tick later.
Replayed ==
    StepResult(last.current_state, last.rows, last.next_timestep - 1,
               last.step_audit.step_start_time + 1)

WithoutTimes(res) ==
    [res EXCEPT !.step_audit.step_start_time = None, !.step_audit.step_end_time = None]

C19_StoredTimeMatchesTimestep ==
    \A k \in 1..Len(sim_states) :
        sim_states[k].timestep = current_timestep
           => sim_states[k].state_data.t = current_timestep

\* Row i's condition is one eval() cannot evaluate.
Unevaluable(i) == db_triggers[i].condition.when.kind = "malformed"

\* C20: a trigger whose condition cannot be evaluated does not fire and none
\* of its actions is applied; the step audit's errors gain an entry naming
\* it; the triggers after it and the reducer pipeline still run in that step.
C20_UnevaluableConditionRecorded ==
    last.stepped =>
        \A i \in 1..Len(db_triggers) :
            Unevaluable(i) =>
                /\ ~InSeq(i, last.fired_rows)
                /\ \A c \in 1..Len(Changes) :
                      TriggerChange(Changes[c]) => Changes[c].src.trig # i
                /\ \A j \in (i + 1)..Len(db_triggers) :
                      (~OnceSuppressed(j)
                         /\ eval_condition(Prospective, db_triggers[j].condition.when))
                      => InSeq(j, last.fired_rows)
                /\ BasePresent => last.step_audit.reducer_sequence = reducer_sequence
                /\ \E e \in 1..Len(last.step_audit.errors) :
                      /\ last.step_audit.errors[e][1] = "Error evaluating trigger"
                      /\ last.step_audit.errors[e][2] = db_triggers[i].name

----------------------------------------------------------------------------
\* No step request is in flight.
Quiescent ==
    \A r \in Requests : requests[r].pc = "idle"

\* The state record and the audit log of a timestep are both committed.
StepStored(timestep) ==
    /\ IntegrityError(timestep)
    /\ \E k \in 1..Len(audit_logs) : audit_logs[k].timestep = timestep

\* Every committed fire of a trigger row is in the row's bookkeeping.
BookkeepingStored ==
    \A i \in DOMAIN db_triggers : db_triggers[i].times_fired = fired_steps[i]

\* C21: a step is persisted all or nothing: once no request is in flight (each
\* has succeeded, or failed at some point), the state record and the audit of
\* timestep n are committed exactly when current_timestep has advanced to n and
\* the bookkeeping of the fired triggers is committed.
C21_StepAllOrNothing ==
    Quiescent =>
        \A n \in 1..MaxSteps : StepStored(n) <=> (current_timestep >= n /\ BookkeepingStored)

\* The place of a country code in Python's ordering of str.
CodeRank(code) == IF code = "CHN" THEN 1 ELSE 2

\* C22: within each reducer the countries are processed in the lexicographic
\* order of their codes, whatever order they were inserted in: the FieldChanges
\* one reducer records in a step are sorted by country code.
C22_CountriesInCodeOrder ==
    last.stepped =>
        \A r \in SeqRange(reducer_sequence) : \A i, j \in ChangesOf(r) :
            i < j => CodeRank(Changes[i].field_path[2]) <= CodeRank(Changes[j].field_path[2])

\* The number of actions a trigger carries.
ActionCount(action) ==
    Len(action.patches) + Len(action.overrides) + Len(action.network_rewrites)
        + Len(action.events)

\* C23: a trigger is marked fired (in triggers_fired, in the row's bookkeeping,
\* and for a once-only trigger in the fired set) only when its actions were
\* applied: a trigger with actions, every one of which failed with a recorded
\* error and changed nothing, is not marked fired.
C23_FiredOnlyWhenApplied ==
    last.stepped =>
        \A i \in FiredRows :
            ActionCount(db_triggers[i].action) > 0
                => \E c \in 1..Len(Changes) : Changes[c].src = TriggerSrc(i)

\* The errors the except clause of reduce_world recorded for a reducer.
ErrorsIn(reducer_name) ==
    {e \in 1..Len(last.step_audit.errors) :
        /\ last.step_audit.errors[e][1] = "Error in"
        /\ last.step_audit.errors[e][2] = reducer_name}

\* A pass that is bound to raise on the state the pipeline was given: a
\* division by a potential GDP of zero in output_gap_update, a monetary rule
\* that is not registered.  (debt_update divides too, by values earlier passes
\* may have written.)
Raises(reducer_name) ==
    CASE reducer_name = "output_gap_update" ->
            \E c \in DOMAIN last.triggered_state.countries :
                /\ last.triggered_state.countries[c].macro.gdp # None
                /\ last.triggered_state.countries[c].macro.potential_gdp = 0
      [] reducer_name = "monetary_policy" ->
            DictGet(last.triggered_state.rules.regimes.monetary, "rule", "taylor")
                \notin RegisteredMonetary
      [] OTHER -> FALSE

\* C24: when a reducer raises, one error "Error in <reducer>: <message>" is
\* recorded for it and no more, every reducer of the pipeline is still run, and
\* t is still incremented.
C24_RaisingReducerIsolated ==
    (last.stepped /\ BasePresent) =>
        /\ \A r \in SeqRange(reducer_sequence) :
              /\ Cardinality(ErrorsIn(r)) <= 1
              /\ Raises(r) => Cardinality(ErrorsIn(r)) = 1
        /\ last.step_audit.reducer_sequence = reducer_sequence
        /\ last.new_state.t = last.triggered_state.t + 1

\* A step in which output_gap_update raised and the reducers after it wrote.
C24_Witness ==
    /\ last.stepped /\ BasePresent
    /\ Raises("output_gap_update")
    /\ \E e \in ErrorsIn("output_gap_update") :
          last.step_audit.errors[e][3] = "ZeroDivisionError"
    /\ ChangesOf("inflation_update") # {}
    /\ ChangesOf("bop_settlement") # {}

\* The names expire_triggers is to return for the step: triggers with
\* expires_after_turns set, in the fire-turn map it was given, fired at least
\* that many turns before state.t.
Due ==
    {last.rows[i].name : i \in {j \in 1..Len(last.rows) :
        /\ last.rows[j].expires_after_turns # None
        /\ last.rows[j].name \in DOMAIN last.loaded_times
        /\ last.triggered_state.t - last.loaded_times[last.rows[j].name]
              >= last.rows[j].expires_after_turns}}

\* C25: expire_triggers returns exactly the names of the triggers that have
\* expires_after_turns set, are in the fire-turn map, and have
\* state.t - fire_turn >= expires_after_turns; it removes exactly those names
\* from the map and leaves the other entries and the trigger list as they were.
C25_ExpireTriggersExact ==
    last.stepped =>
        /\ SeqRange(last.expired_triggers) = Due
        /\ DOMAIN last.fired_trigger_times = DOMAIN last.loaded_times \ Due
        /\ \A n \in DOMAIN last.fired_trigger_times :
              last.fired_trigger_times[n] = last.loaded_times[n]
        /\ Triggers(db_triggers) = Triggers(last.rows)

\* A step in which one trigger expired on the turn its sunset fell due and
\* another fired trigger stayed in the map.
C25_Witness ==
    /\ last.stepped
    /\ \E i \in 1..Len(last.rows) :
          /\ InSeq(last.rows[i].name, last.expired_triggers)
          /\ last.triggered_state.t - last.loaded_times[last.rows[i].name]
                = last.rows[i].expires_after_turns
    /\ DOMAIN last.fired_trigger_times # {}

\* The monetary rule the step's monetary_policy pass resolved.
MonetaryRule == DictGet(last.triggered_state.rules.regimes.monetary, "rule", "taylor")

\* A trigger of the step wrote the policy rate of the country.
TriggerWroteRate(c) ==
    /\ last.step_audit.triggers_fired # << >>
    /\ \E i \in 1..Len(Changes) :
          TriggerChange(Changes[i]) /\ Changes[i].field_path = PolicyRatePath(c)

\* C26: the Taylor rule never yields a negative rate: whatever the macro values,
\* an unknown inflation with a negative current policy_rate included, the
\* policy_rate monetary_policy_taylor leaves (when it does not skip) is >= 0.
C26_TaylorRateNonNegative ==
    (last.stepped /\ BasePresent /\ MonetaryRule = "taylor") =>
        \A c \in DOMAIN last.new_state.countries :
            (~TriggerWroteRate(c) /\ last.new_state.countries[c].macro.policy_rate # None)
                => last.new_state.countries[c].macro.policy_rate >= 0

\* The rate the peg formula gives from the rate r and the exchange rate.
PegRate(r, fx_rate) ==
    Max(0, r + Mul(DictGet(last.triggered_state.rules.regimes.monetary, "peg_strength",
                           PegStrengthDefault),
                   fx_rate - DictGet(last.triggered_state.rules.regimes.monetary,
                                     "peg_target", PegTargetDefault)))

\* C27: under fx_peg a country whose fx_rate is unknown keeps its policy_rate,
\* whatever its value, 0 included; when fx_rate is known the new rate is
\* max(0, r + peg_strength * (fx_rate - peg_target)) computed from the actual
\* current rate r, r = 0 included.
C27_FxPegFromActualRate ==
    (last.stepped /\ BasePresent /\ MonetaryRule = "fx_peg") =>
        \A c \in DOMAIN last.new_state.countries :
            IF last.triggered_state.countries[c].external.fx_rate = None
            THEN last.new_state.countries[c].macro.policy_rate
                    = last.triggered_state.countries[c].macro.policy_rate
            ELSE last.triggered_state.countries[c].macro.policy_rate # None
                    => last.new_state.countries[c].macro.policy_rate
                          = PegRate(last.triggered_state.countries[c].macro.policy_rate,
                                    last.triggered_state.countries[c].external.fx_rate)

\* The value a field held just before the n-th change of the step: what the
\* latest earlier change of the field wrote, else what the loaded state held.
ValueBefore(n) ==
    LET earlier == {j \in 1..(n - 1) : Changes[j].field_path = Changes[n].field_path}
    IN  IF earlier # {}
        THEN Changes[CHOOSE j \in earlier : \A k \in earlier : k <= j].new_value
        ELSE GetPath(last.current_state, Changes[n].field_path)

\* C28: for every FieldChange a reducer records on a field of the state,
\* old_value is the value the field held just before the change and the
\* new_value of the field's last change is the value it holds after the step,
\* so that replaying the changes in order over the pre-step state gives the
\* post-step value of every recorded field.
C28_ChangesReplayable ==
    last.stepped =>
        \A n \in 1..Len(Changes) :
            (ReducerChange(Changes[n]) /\ Navigate(last.current_state, Changes[n].field_path).found)
                => /\ Changes[n].old_value = ValueBefore(n)
                   /\ ValueLeft(Changes[n].field_path, None)
                         = GetPath(last.new_state, Changes[n].field_path)

\* The committed audit logs that list a trigger name as fired.
FiresStored(name) ==
    {k \in 1..Len(audit_logs) : InSeq(name, audit_logs[k].triggers_fired)}

\* C29: when step requests of one scenario interleave, at most one of them
\* commits for a given timestep: no timestep has two state records or two audit
\* logs, no fire of a trigger is counted twice for a timestep, and
\* current_timestep moves one timestep per committed step (it is the last
\* stored timestep, or the one before while the request that stored it has not
\* yet committed the scenario).
C29_OneCommitPerTimestep ==
    /\ \A k \in 1..Len(sim_states) : sim_states[k].timestep = k - 1
    /\ \A k \in 1..Len(audit_logs) : audit_logs[k].timestep = k
    /\ Len(audit_logs) = Len(sim_states) - 1
    /\ \A i \in DOMAIN db_triggers :
          db_triggers[i].times_fired = Cardinality(FiresStored(db_triggers[i].name))
    /\ current_timestep \in {Len(sim_states) - 1, Len(sim_states) - 2}
    /\ current_timestep >= 0

\* Two requests have computed the same timestep, with a trigger firing; one has
\* committed it and the other is about to store.
C29_Witness ==
    \E r1, r2 \in Requests :
        /\ requests[r1].pc = "stored"
        /\ requests[r2].pc = "computed"
        /\ requests[r2].res.next_timestep = requests[r1].res.next_timestep
        /\ requests[r1].res.fired_rows # << >>
        /\ current_timestep > 0

\* C30: an exception raised while a per-country reducer processes one country
\* does not keep the reducer from the remaining countries of the step: every
\* country whose GDP and non-zero potential GDP are known gets its output gap
\* written by output_gap_update, whichever other country made the pass raise.
C30_OtherCountriesStillReduced ==
    (last.stepped /\ BasePresent) =>
        \A c \in DOMAIN last.triggered_state.countries :
            (/\ last.triggered_state.countries[c].macro.gdp # None
             /\ last.triggered_state.countries[c].macro.potential_gdp # None
             /\ last.triggered_state.countries[c].macro.potential_gdp # 0)
                => \E n \in ChangesOf("output_gap_update") :
                      Changes[n].field_path = CountryPath(c, "macro", "output_gap")


============================================================================
